---- MODULE Spec2Model ----
(***************************************************************************)
(* Model of the RedditMM cog: the sqlite-backed store of seen URLs and     *)
(* ignored redditors (redditmmdb.py and the copy of the class inside       *)
(* redditmm.py), the filter/dispatch pipeline format_send, the poll loop   *)
(* bg_loop/do_feeds and the force command.                                 *)
(*                                                                         *)
(* Concurrency is asyncio: one thread, tasks switch only at an await that  *)
(* really suspends (network I/O to Reddit or Discord, the config context   *)
(* manager, asyncio.sleep).  The store methods are `async def` but run     *)
(* synchronous sqlite3 calls and an asyncio.Lock that is never held across *)
(* a suspension, so a store call, and the whole filter loop of             *)
(* format_send, runs without a task switch.  Each action below is the code *)
(* between two suspension points.                                          *)
(***************************************************************************)
EXTENDS Integers, Sequences, FiniteSets, TLC

(***************************************************************************)
(* Bounds                                                                  *)
(***************************************************************************)
\* created_utc values are 1..MaxTime; cursors are 0..MaxTime
MaxTime == 2
\* rows per key that the model lets a table without a UNIQUE constraint hold
MaxRows == 2
\* number of submissions a fetch returns at most (stands for limit=20)
MaxBatch == 2
\* rows per redditor that repeated ignores add while the poll loop runs
MaxIgnores == 1
\* rows the favorites table holds at most
MaxFavorites == 2

Guilds == {1, 2}
Urls == {"https://i.imgur.com/a.jpg", "https://example.com/b"}
Redditors == {"x", "y"}
Times == 1..MaxTime
Users == {1, 2}
\* the key of a favorites row next to its guildID
FavKeys == [redditor : Redditors, url : Urls, userID : Users]

\* Python's None, as a value no row id or row count takes
None == -1
\* None as the default of the `url` parameter of get_favorite / del_favorite
NoUrl == ""

(***************************************************************************)
(* The store.  A table maps guildID and key to the number of rows with     *)
(* that guildID and key.  Row ids are abstracted: a SELECT id that finds a *)
(* row yields 1 (callers only test `is not None`).                         *)
(*                                                                         *)
(* Every store operation takes `fault`: TRUE when the sqlite3 engine       *)
(* raises sqlite3.DatabaseError in this call (locked or corrupt file, disk *)
(* error, or a syntax error because the interpolated text holds a quote).  *)
(* A faulting statement changes no row.                                    *)
(* An operation yields [tbl, ret, exc]: the table after it, the returned   *)
(* value, and the exception that leaves the method ("none" if it returns). *)
(***************************************************************************)
EmptyTable(Keys) == [g \in Guilds |-> [k \in Keys |-> 0]]

\* the INSERT is never committed
Insert_mut(tbl, g, k) == tbl
Insert(tbl, g, k) == [tbl EXCEPT ![g][k] = @ + 1]

\* The statements are built by interpolation, f"... AND redditor =
\* '{redditor}'": the text becomes part of the statement.  A text with a
\* quote in it is a syntax error as a rule (an engine fault), but not this
\* one, which closes the literal and adds a condition that is always true:
\*   WHERE guildID = 1 AND redditor = 'x' OR 'x'='x'
Tautology == "x' OR 'x'='x"
Injects(text) == text = Tautology

RECURSIVE Rows(_, _)
\* the number of rows that rows holds under the keys S
Rows(rows, S) ==
    IF S = {} THEN 0
    ELSE LET k == CHOOSE x \in S : TRUE IN rows[k] + Rows(rows, S \ {k})

\* cur.rowcount of the DELETE: the rows its WHERE clause selects
Deleted(tbl, g, k) ==
    IF Injects(k) THEN Rows(tbl[1], DOMAIN tbl[1]) + Rows(tbl[2], DOMAIN tbl[2])
    ELSE tbl[g][k]

\* the DELETE is never committed
Delete_mut(tbl, g, k) == tbl
Delete(tbl, g, k) ==
    IF Injects(k) THEN [d \in Guilds |-> [x \in DOMAIN tbl[d] |-> 0]]
    ELSE [tbl EXCEPT ![g][k] = 0]

\* redditmmdb.py imports logging but never binds the name `log`
LogBound == FALSE

\* `except (sqlite3.DatabaseError) as e: log.error(...); return None`
Except(tbl) ==
    IF LogBound THEN [tbl |-> tbl, ret |-> None, exc |-> "none"]
    ELSE [tbl |-> tbl, ret |-> None, exc |-> "NameError"]

\* ---- redditmmdb.py: tables have UNIQUE (guildID, key) ----
get_seen_url(tbl, guildID, url, fault) ==
    IF fault THEN Except(tbl)
    ELSE [tbl |-> tbl, ret |-> IF tbl[guildID][url] > 0 THEN 1 ELSE None, exc |-> "none"]

add_seen_url(tbl, guildID, url, fault) ==
    IF fault \/ tbl[guildID][url] > 0   \* engine fault, or UC_GuildURL violated
    THEN Except(tbl)
    ELSE [tbl |-> Insert(tbl, guildID, url), ret |-> 1, exc |-> "none"]

get_ignored_redditor(tbl, guildID, redditor, fault) ==
    IF fault THEN Except(tbl)
    ELSE [tbl |-> tbl, ret |-> IF tbl[guildID][redditor] > 0 THEN 1 ELSE None, exc |-> "none"]

add_ignored_redditor(tbl, guildID, redditor, fault) ==
    IF fault \/ tbl[guildID][redditor] > 0   \* engine fault, or UC_GuildRedditor violated
    THEN Except(tbl)
    ELSE [tbl |-> Insert(tbl, guildID, redditor), ret |-> 1, exc |-> "none"]

del_ignored_redditor(tbl, guildID, redditor, fault) ==
    IF fault THEN Except(tbl)
    ELSE [tbl |-> Delete(tbl, guildID, redditor),
          ret |-> IF Deleted(tbl, guildID, redditor) = 0 THEN None
                  ELSE Deleted(tbl, guildID, redditor),
          exc |-> "none"]

\* the rows of fetchall(), one per row of the guild: how many name each redditor
get_all_ignored_redditors(tbl, guildID, fault) ==
    IF fault THEN Except(tbl)
    ELSE [tbl |-> tbl, ret |-> tbl[guildID], exc |-> "none"]

\* the favorites rows of a guild that the WHERE clause of get_favorite and
\* del_favorite selects: url and userID restrict it only when given
\* the userID is left out of the clause
Selected_mut(redditor, url, userID) ==
    {k \in FavKeys : k.redditor = redditor /\ (url = NoUrl \/ k.url = url)}
Selected(redditor, url, userID) ==
    {k \in FavKeys : /\ k.redditor = redditor
                     /\ (url = NoUrl \/ k.url = url)
                     /\ (userID = None \/ k.userID = userID)}

\* the DELETE takes every row of the guild
DeleteAll_mut(tbl, g, S) == [tbl EXCEPT ![g] = [k \in DOMAIN @ |-> 0]]
DeleteAll(tbl, g, S) == [tbl EXCEPT ![g] = [k \in DOMAIN @ |-> IF k \in S THEN 0 ELSE @[k]]]

get_favorite(tbl, guildID, redditor, url, userID, fault) ==
    IF fault THEN Except(tbl)
    ELSE LET cnt == Rows(tbl[guildID], Selected(redditor, url, userID))
         IN  [tbl |-> tbl, ret |-> IF cnt = 0 THEN None ELSE cnt, exc |-> "none"]

add_favorite(tbl, guildID, redditor, url, userID, fault) ==
    LET k == [redditor |-> redditor, url |-> url, userID |-> userID]
    IN  IF fault \/ tbl[guildID][k] > 0   \* engine fault, or UC_GuildRedditorURLUser violated
        THEN Except(tbl)
        ELSE [tbl |-> Insert(tbl, guildID, k), ret |-> 1, exc |-> "none"]

del_favorite(tbl, guildID, redditor, url, userID, fault) ==
    IF fault THEN Except(tbl)
    ELSE LET S == Selected(redditor, url, userID)
             cnt == Rows(tbl[guildID], S)
         IN  [tbl |-> DeleteAll(tbl, guildID, S),
              ret |-> IF cnt = 0 THEN None ELSE cnt, exc |-> "none"]

\* ---- redditmm.py: the class of the same name defined in the cog's module;
\* ---- no UNIQUE constraint, no try/except
Propagate(tbl) == [tbl |-> tbl, ret |-> None, exc |-> "DatabaseError"]

inline_get_seen_url(tbl, guildID, url, fault) ==
    IF fault THEN Propagate(tbl)
    ELSE [tbl |-> tbl, ret |-> IF tbl[guildID][url] > 0 THEN 1 ELSE None, exc |-> "none"]

inline_add_seen_url(tbl, guildID, url, fault) ==
    IF fault THEN Propagate(tbl)
    ELSE [tbl |-> Insert(tbl, guildID, url), ret |-> 1, exc |-> "none"]

inline_get_ignored_redditor(tbl, guildID, redditor, fault) ==
    IF fault THEN Propagate(tbl)
    ELSE [tbl |-> tbl, ret |-> IF tbl[guildID][redditor] > 0 THEN 1 ELSE None, exc |-> "none"]

inline_add_ignored_redditor(tbl, guildID, redditor, fault) ==
    IF fault THEN Propagate(tbl)
    ELSE [tbl |-> Insert(tbl, guildID, redditor), ret |-> 1, exc |-> "none"]

inline_del_ignored_redditor(tbl, guildID, redditor, fault) ==
    IF fault THEN Propagate(tbl)
    ELSE [tbl |-> Delete(tbl, guildID, redditor), ret |-> Deleted(tbl, guildID, redditor),
          exc |-> "none"]

\* self.db.<method>.  The cog builds self.db from the class of its own
\* module (line 157); redditmmdb.py holds the same class with UNIQUE
\* constraints and error handlers.  The pipeline is checked against a store
\* of either class.
DBClasses == {"redditmmdb", "redditmm"}

db_get_seen_url(cls, tbl, g, u, fault) ==
    IF cls = "redditmmdb" THEN get_seen_url(tbl, g, u, fault)
    ELSE inline_get_seen_url(tbl, g, u, fault)

\* the insert is lost (never committed)
db_add_seen_url_mut(cls, tbl, g, u, fault) ==
    [tbl |-> tbl, ret |-> 1, exc |-> "none"]
db_add_seen_url(cls, tbl, g, u, fault) ==
    IF cls = "redditmmdb" THEN add_seen_url(tbl, g, u, fault)
    ELSE inline_add_seen_url(tbl, g, u, fault)

db_get_ignored_redditor(cls, tbl, g, r, fault) ==
    IF cls = "redditmmdb" THEN get_ignored_redditor(tbl, g, r, fault)
    ELSE inline_get_ignored_redditor(tbl, g, r, fault)

db_add_ignored_redditor(cls, tbl, g, r, fault) ==
    IF cls = "redditmmdb" THEN add_ignored_redditor(tbl, g, r, fault)
    ELSE inline_add_ignored_redditor(tbl, g, r, fault)

db_del_ignored_redditor(cls, tbl, g, r, fault) ==
    IF cls = "redditmmdb" THEN del_ignored_redditor(tbl, g, r, fault)
    ELSE inline_del_ignored_redditor(tbl, g, r, fault)


(***************************************************************************)
(* Submissions and fetch results                                           *)
(***************************************************************************)
\* a submission as format_send reads it.  Every channel of the model is SFW
\* (is_nsfw below), where format_send skips an over_18 submission before it
\* reads its author or url, so one author and url stand for all of them.
Submissions ==
    {s \in [created_utc : Times, url : Urls, author : Redditors, over_18 : BOOLEAN] :
        s.over_18 => (s.url = "https://example.com/b" /\ s.author = "y")}

\* subreddit.new(): newest first.  The listings of the model hold no two
\* submissions of the same second.
NewestFirst(s) == \A i \in 1..(Len(s) - 1) : s[i].created_utc > s[i + 1].created_utc

Listings ==
    {s \in UNION {[1..n -> Submissions] : n \in 1..MaxBatch} : NewestFirst(s)}

\* fetch_feed: `return resp or None`, and None on any exception; the model
\* writes the None response as the empty sequence
NoResponse == << >>
fetch_feed == Listings \cup {NoResponse}

\* html.unescape on a redditor name: names are [A-Za-z0-9_-], the only entity
\* the model knows is never part of one
unescape(s) == IF s = "&amp;" THEN "&" ELSE s

\* lines 801-823: does format_send recognise media in the submission's url
images(feed) ==
    LET image == feed.url
        redgifs == FALSE                       \* "redgifs.com" in image
        gallery == FALSE                       \* "gallery" in image
        valid == TRUE                          \* validators.url(image)
        self == FALSE                          \* feed.permalink in image
        imgfile == image = "https://i.imgur.com/a.jpg"   \* endswith png/jpg/jpeg/gif
        spoiler == FALSE                       \* feed.spoiler
    IN  IF redgifs /\ ~self /\ valid THEN TRUE
        ELSE IF ~self /\ valid /\ gallery THEN TRUE
        ELSE IF imgfile /\ ~spoiler THEN TRUE
        ELSE FALSE

(***************************************************************************)
(* Configuration read by the pipeline (owned by the Red config store)      *)
(***************************************************************************)
VARIABLE
    all_channels        \* config: the subscriptions, as config.all_channels() gives them

Channels == {"c1", "c2"}
\* channel.guild.id
GuildOf(c) == 1
\* channel.is_nsfw()
is_nsfw(c) == FALSE
\* one channel subscribed to one subreddit
OneFeed == << [channel |-> "c1", sub |-> "r1"] >>
\* two channels subscribed to the same subreddit
SharedFeed == << [channel |-> "c1", sub |-> "r1"], [channel |-> "c2", sub |-> "r1"] >>
\* one channel subscribed to two subreddits
OtherFeed == << [channel |-> "c1", sub |-> "r1"], [channel |-> "c1", sub |-> "r2"] >>
\* two channels subscribed to the same subreddit, with the dict of the
\* subscription as the config holds it: "latest" is True, False, or not a
\* key of the dict
Settings ==
    {[subreddit |-> "r1", latest |-> TRUE], [subreddit |-> "r1", latest |-> FALSE],
     [subreddit |-> "r1"]}
LatestFeeds ==
    {<< [channel |-> "c1", sub |-> "r1", feed |-> f1],
        [channel |-> "c2", sub |-> "r1", feed |-> f2] >> : f1, f2 \in Settings}
\* do_feeds lines 245-249: the (channel, subreddit) pairs in iteration order
Pairs == all_channels
Subs == {Pairs[i].sub : i \in 1..Len(Pairs)}

(***************************************************************************)
(* format_send lines 743-832: the filter loop.  It contains no suspension  *)
(* point, so it is one atomic computation over the store.                  *)
(*   env: cls, data, last_post, guild, nsfw, image_only, ign, flt          *)
(*   flt: [i, call] the store call that meets an engine fault (i = 0: none)*)
(*   acc: timestamps, posts (indices into data, in append order), seen,    *)
(*        exc (exception leaving format_send), at (the call that raised)   *)
(***************************************************************************)
NoFault == [i |-> 0, call |-> "none"]
Faults(data) ==
    {NoFault} \cup [i : 1..Len(data), call : {"get_ignored_redditor", "get_seen_url", "add_seen_url"}]

\* line 748: `if timestamp <= last_post: break`
NotNew_mut(timestamp, last_post) == timestamp < last_post
NotNew(timestamp, last_post) == timestamp <= last_post

\* line 754: `... is not None: continue`
IsIgnored_mut(ret) == FALSE
IsIgnored(ret) == ret # None

\* line 758: `... is not None: continue`
IsSeen_mut(ret) == FALSE
IsSeen(ret) == ret # None

\* lines 823-824: `if settings.get("image_only") and not images: continue`
ImageOnlySkip_mut(image_only, feed) == FALSE
ImageOnlySkip(image_only, feed) == image_only /\ ~images(feed)

\* lines 827-829: `posts.append(post)`
\* the post is dropped
Admit_mut(acc, i) == acc
Admit(acc, i) == [acc EXCEPT !.posts = Append(@, i)]

RECURSIVE Scan(_, _, _)
\* line 747: `continue`
\* `break` in its place
SkipAdult_mut(i, acc, env) == acc
SkipAdult(i, acc, env) == Scan(i + 1, acc, env)

\* lines 755, 759, 824: `continue`
\* `break` in its place
Skip_mut(i, acc, env) == acc
Skip(i, acc, env) == Scan(i + 1, acc, env)

\* line 749: `break`
Break_mut(i, acc, env) == Scan(i + 1, acc, env)
Break(i, acc, env) == acc

Scan(i, acc, env) ==
    IF i > Len(env.data) THEN acc
    ELSE
    LET feed == env.data[i]
        timestamp == feed.created_utc
        hit(call) == env.flt.i = i /\ env.flt.call = call
    IN
    IF feed.over_18 /\ ~env.nsfw
    THEN SkipAdult(i, [acc EXCEPT !.timestamps = Append(@, timestamp)], env)
    ELSE IF NotNew(timestamp, env.last_post) THEN Break(i, acc, env)
    ELSE
    LET acc1 == [acc EXCEPT !.timestamps = Append(@, timestamp)]
        author == unescape(feed.author)
        ig == db_get_ignored_redditor(env.cls, env.ign, env.guild, author,
                                      hit("get_ignored_redditor"))
    IN
    IF ig.exc # "none" THEN [acc1 EXCEPT !.exc = ig.exc, !.at = [i |-> i, call |-> "get_ignored_redditor"]]
    ELSE IF IsIgnored(ig.ret) THEN Skip(i, acc1, env)
    ELSE
    LET sn == db_get_seen_url(env.cls, acc1.seen, env.guild, feed.url, hit("get_seen_url"))
    IN
    IF sn.exc # "none" THEN [acc1 EXCEPT !.exc = sn.exc, !.at = [i |-> i, call |-> "get_seen_url"]]
    ELSE IF IsSeen(sn.ret) THEN Skip(i, acc1, env)
    ELSE IF ImageOnlySkip(env.image_only, feed) THEN Skip(i, acc1, env)
    ELSE
    LET acc2 == Admit(acc1, i)
        ad == db_add_seen_url(env.cls, acc2.seen, env.guild, feed.url, hit("add_seen_url"))
    IN
    IF ad.exc # "none" THEN [acc2 EXCEPT !.exc = ad.exc, !.at = [i |-> i, call |-> "add_seen_url"]]
    ELSE Scan(i + 1, [acc2 EXCEPT !.seen = ad.tbl], env)

\* line 266: `feed.get("latest", True)`
Get(feed, key, default) == IF key \in DOMAIN feed THEN feed[key] ELSE default

\* the "latest" setting a call is made with: the one of the subscription's
\* dict; a subscription whose dict the model does not hold has any (the
\* commands of the cog rewrite it between two ticks)
LatestOf(pair) ==
    IF "feed" \in DOMAIN pair THEN {Get(pair.feed, "latest", TRUE)} ELSE BOOLEAN

\* line 729: `data = data[:1] if settings.get("latest", True) else data`
\* the batch is left as it is
Truncate_mut(data, latest) == data
Truncate(data, latest) == IF latest THEN SubSeq(data, 1, 1) ELSE data

\* a fetched listing after line 729 with "latest" set
Latest == {Truncate(d, TRUE) : d \in Listings}

\* lines 754, 758, 832: `channel.guild.id`, the key of the store calls
\* the channel in its place
guild_id_mut(channel) == IF channel = "c1" THEN 1 ELSE 2
guild_id(channel) == GuildOf(channel)

\* the filter loop of one format_send call
Filter(cls, seen, ign, data, channel, last_post, image_only, flt) ==
    Scan(1,
         [timestamps |-> << >>, posts |-> << >>, seen |-> seen, exc |-> "none", at |-> NoFault],
         [cls |-> cls, data |-> data, last_post |-> last_post, guild |-> guild_id(channel),
          nsfw |-> is_nsfw(channel), image_only |-> image_only, ign |-> ign, flt |-> flt])

\* lines 834-868: `return timestamps[0]` if timestamps else None
Returned(timestamps) == IF timestamps = << >> THEN None ELSE timestamps[1]


(***************************************************************************)
(* State                                                                   *)
(***************************************************************************)
VARIABLES
    db,                 \* which RedditMMDB class self.db is an instance of
    seen_urls,          \* table seen_urls
    ignored_redditors,  \* table ignored_redditors
    last_post,          \* config: feeds_data[sub]["last_post"], per index of Pairs
    bg,                 \* bg_loop / do_feeds: position, pair index, `feeds` cache
    run,                \* the format_send call of each task
    notified,           \* self.notified
    owners_msgs,        \* messages send_to_owners has delivered since the start
    favorites,          \* table favorites
    ret,                \* the last direct call of a store method and its outcome
    tables,             \* the tables that exist in the sqlite file
    lock,               \* RedditMMDB._lock: the task that holds it
    wr                  \* the store write each task is in, statement by statement

vars == <<all_channels, tables, lock, wr, db, seen_urls, ignored_redditors, last_post, bg, run,
          notified, owners_msgs, favorites, ret>>

Tasks == {"bg", "force"}

Idle ==
    [phase |-> "idle", channel |-> "c1", data |-> << >>, last_post |-> 0,
     image_only |-> FALSE, webhook |-> FALSE, posts |-> << >>, k |-> 0,
     sending |-> 0, time |-> None, at |-> NoFault]

Unfetched == [fetched |-> FALSE, resp |-> NoResponse]
\* `fetches` counts the fetch_feed calls of the running do_feeds per subreddit
NoFetches == [s \in Subs |-> 0]
BgStart ==
    [pc |-> "do_feeds", i |-> 1, feeds |-> [s \in Subs |-> Unfetched], fetches |-> NoFetches]
NoCall ==
    [op |-> "none", guildID |-> 1, key |-> "", url |-> NoUrl, userID |-> None,
     fault |-> FALSE, ret |-> None, exc |-> "none"]

\* the tables init creates: prepare_favorites exists in redditmmdb.py only
Tables(cls) ==
    IF cls = "redditmmdb" THEN <<"seen_urls", "ignored_redditors", "favorites">>
    ELSE <<"seen_urls", "ignored_redditors">>

\* asyncio.Lock(): nobody holds it
Unlocked == "none"

\* the tasks that call the store: init, the poll loop, a force command and
\* a reaction handler
Writers == {"init", "bg", "force", "reaction"}
NoWrite ==
    [pc |-> "idle", op |-> "none", table |-> "none", guildID |-> 1, redditor |-> "",
     url |-> NoUrl, userID |-> None]

\* RedditMMDB.init has returned: the tables exist, no write is under way
StoreReady ==
    /\ tables = {Tables(db)[i] : i \in 1..Len(Tables(db))}
    /\ lock = Unlocked
    /\ wr = [t \in Writers |-> NoWrite]

\* RedditMM.__init__ / init on a fresh data directory, once the tables exist
\* and bg_loop has been started; subscriptions were added at time 0, before
\* any submission the model fetches.  (init of the class in redditmm.py
\* calls prepare_seen_urls_table without `self.` at line 81; the model
\* starts from the prepared store that init of redditmmdb.py gives.)
Init ==
    /\ all_channels = OneFeed
    /\ db \in DBClasses
    /\ seen_urls = EmptyTable(Urls)
    /\ ignored_redditors = EmptyTable(Redditors)
    /\ last_post = [p \in 1..Len(Pairs) |-> 0]
    /\ bg = BgStart
    /\ run = [t \in Tasks |-> Idle]
    /\ notified = FALSE
    /\ owners_msgs = 0
    /\ favorites = EmptyTable(FavKeys)
    /\ ret = NoCall
    /\ StoreReady

(***************************************************************************)
(* format_send up to the end of the filter loop, as one step of task t.    *)
(* `webhooks` stands for lines 731-741 ending with a webhook object.       *)
(***************************************************************************)
\* the locals of the call once the filter loop has given f
Call(f, d, channel, lp, image_only, webhooks) ==
    IF f.exc # "none"
    THEN \* the exception leaves format_send; its locals are gone
         [Idle EXCEPT !.phase = "raised", !.channel = channel, !.at = f.at]
    ELSE [phase |-> "dispatch",
          channel |-> channel, data |-> d, last_post |-> lp, image_only |-> image_only,
          \* with fewer than two posts to send a failed send ends the loop
          \* on either path, so the mode is kept only when it can matter
          webhook |-> webhooks /\ Len(f.posts) > 1,
          posts |-> f.posts, k |-> Len(f.posts), sending |-> 0,
          time |-> Returned(f.timestamps), at |-> f.at]

(***************************************************************************)
(* bg_loop and do_feeds                                                    *)
(***************************************************************************)
\* bg_loop line 230 -> do_feeds lines 241-245
DoFeeds ==
    /\ bg.pc = "do_feeds"
    /\ bg' = [pc |-> "pairs", i |-> 1, feeds |-> [s \in Subs |-> Unfetched],
              fetches |-> NoFetches]
    /\ UNCHANGED <<all_channels, tables, lock, wr, db, favorites, seen_urls, ignored_redditors, last_post, run, notified, owners_msgs, ret>>

AtPair == bg.pc = "pairs" /\ bg.i <= Len(Pairs) /\ run["bg"].phase = "idle"

\* line 257: `feeds[url] = response`, whatever the response is
\* a None response is not kept
Cached_mut(resp) == [fetched |-> resp # NoResponse, resp |-> resp]
Cached(resp) == [fetched |-> TRUE, resp |-> resp]

\* do_feeds lines 253-257: the feed is not cached, fetch it
FetchFeed ==
    /\ AtPair
    /\ ~bg.feeds[Pairs[bg.i].sub].fetched
    /\ \E resp \in fetch_feed :
         bg' = [bg EXCEPT !.feeds[Pairs[bg.i].sub] = Cached(resp),
                          !.fetches[Pairs[bg.i].sub] = IF @ < 2 THEN @ + 1 ELSE @]
    /\ UNCHANGED <<all_channels, tables, lock, wr, db, favorites, seen_urls, ignored_redditors, last_post, run, notified, owners_msgs, ret>>

\* The `feeds` dict lives until do_feeds returns, but an entry is read again
\* only by a later pair of the same subreddit: the model drops an entry that
\* no later pair reads.
Forget(feeds, i) ==
    [s \in Subs |->
        IF \E j \in (i + 1)..Len(Pairs) : Pairs[j].sub = s THEN feeds[s] ELSE Unfetched]

\* line 259: `continue`
\* `return` in its place
Continue_mut(b) == [b EXCEPT !.i = Len(Pairs) + 1]
Continue(b) == [b EXCEPT !.i = @ + 1]

\* do_feeds lines 258-259: `if response is None: continue`
SkipPair ==
    /\ AtPair
    /\ bg.feeds[Pairs[bg.i].sub].fetched
    /\ bg.feeds[Pairs[bg.i].sub].resp = NoResponse
    /\ bg' = Continue([bg EXCEPT !.feeds = Forget(@, bg.i)])
    /\ UNCHANGED <<all_channels, tables, lock, wr, db, favorites, seen_urls, ignored_redditors, last_post, run, notified, owners_msgs, ret>>

\* do_feeds lines 260-273 and format_send lines 727-832
FormatSend ==
    /\ AtPair
    /\ bg.feeds[Pairs[bg.i].sub].fetched
    /\ bg.feeds[Pairs[bg.i].sub].resp # NoResponse
    /\ \E latest \in LatestOf(Pairs[bg.i]), image_only, webhooks \in BOOLEAN :
       LET data == Truncate(bg.feeds[Pairs[bg.i].sub].resp, latest)
           channel == Pairs[bg.i].channel
       IN \E flt \in Faults(data) :
          LET f == Filter(db, seen_urls, ignored_redditors, data, channel,
                          last_post[bg.i], image_only, flt)
              r == Call(f, data, channel, last_post[bg.i], image_only, webhooks)
              b == [bg EXCEPT !.feeds = Forget(@, bg.i)]
          IN  /\ seen_urls' = f.seen
              /\ IF r.phase = "dispatch" /\ r.time = None
                 THEN \* `return None`; line 274 is false, next pair
                      /\ bg' = [b EXCEPT !.i = @ + 1]
                      /\ run' = run
                 ELSE /\ run' = [run EXCEPT !["bg"] = r]
                      /\ bg' = IF r.phase = "raised"
                               THEN [b EXCEPT !.pc = "except", !.fetches = NoFetches]
                               ELSE b
    /\ UNCHANGED <<all_channels, tables, lock, wr, db, favorites, ignored_redditors, last_post, notified, owners_msgs, ret>>

\* line 836: `for post in posts[::-1]`, with k posts still to go
NextPost_mut(r) == r.posts[Len(r.posts) - r.k + 1]
NextPost(r) == r.posts[r.k]

\* format_send lines 837-866: the send of one admitted post is attempted;
\* `sending` is its place in the batch.  Forbidden is a subclass of
\* HTTPException.
Send(t) ==
    /\ run[t].phase = "dispatch"
    /\ run[t].k > 0
    /\ \E outcome \in {"ok", "HTTPException"} :
         run' = [run EXCEPT ![t].k =
                    IF outcome = "HTTPException" /\ run[t].webhook
                    THEN 0           \* line 865: caught outside the for loop
                    ELSE @ - 1,      \* sent, or caught at line 857
                            ![t].sending = NextPost(run[t])]
    /\ UNCHANGED <<all_channels, tables, lock, wr, db, favorites, seen_urls, ignored_redditors, last_post, bg, notified, owners_msgs, ret>>

\* `await self.format_send(...)` has returned: the dispatch loop is over
FormatSendReturned_mut(r) == r.phase = "dispatch"
FormatSendReturned(r) == r.phase = "dispatch" /\ r.k = 0

\* do_feeds lines 274-276
WriteCursor ==
    /\ bg.pc = "pairs"
    /\ FormatSendReturned(run["bg"])
    /\ last_post' = IF run["bg"].time # None
                    THEN [last_post EXCEPT ![bg.i] = run["bg"].time]
                    ELSE last_post
    /\ run' = [run EXCEPT !["bg"] = Idle]
    /\ bg' = [bg EXCEPT !.i = @ + 1]
    /\ UNCHANGED <<all_channels, tables, lock, wr, db, favorites, seen_urls, ignored_redditors, notified, owners_msgs, ret>>

\* do_feeds returns; bg_loop lines 231-232
Sleep ==
    /\ bg.pc = "pairs"
    /\ bg.i > Len(Pairs)
    /\ bg' = [bg EXCEPT !.pc = "sleep", !.fetches = NoFetches]
    /\ UNCHANGED <<all_channels, tables, lock, wr, db, favorites, seen_urls, ignored_redditors, last_post, run, notified, owners_msgs, ret>>

\* asyncio.sleep(delay) is over, next iteration of `while True`
Wake ==
    /\ bg.pc = "sleep"
    /\ bg' = [bg EXCEPT !.pc = "do_feeds"]
    /\ UNCHANGED <<all_channels, tables, lock, wr, db, favorites, seen_urls, ignored_redditors, last_post, run, notified, owners_msgs, ret>>

\* bg_loop lines 233-238: the exception of format_send reaches the handler
\* line 235: `if not self.notified:`
ShouldNotify_mut(n) == TRUE
ShouldNotify(n) == ~n

\* send_to_owners is awaited inside the handler, outside any try: when it
\* raises, the exception leaves `while True` and the task is over
BgLoopExcept ==
    /\ bg.pc = "except"
    /\ run' = [run EXCEPT !["bg"] = Idle]
    /\ IF ShouldNotify(notified)
       THEN \E delivered \in BOOLEAN :
              IF delivered
              THEN /\ owners_msgs' = IF owners_msgs < 2 THEN owners_msgs + 1 ELSE owners_msgs
                   /\ notified' = TRUE
                   /\ bg' = [bg EXCEPT !.pc = "do_feeds"]
              ELSE /\ UNCHANGED <<notified, owners_msgs>>
                   /\ bg' = [bg EXCEPT !.pc = "dead"]
       ELSE /\ UNCHANGED <<notified, owners_msgs>>
            /\ bg' = [bg EXCEPT !.pc = "do_feeds"]
    /\ UNCHANGED <<all_channels, tables, lock, wr, db, favorites, seen_urls, ignored_redditors, last_post, ret>>

(***************************************************************************)
(* The force command, lines 524-561                                        *)
(***************************************************************************)
Force(p) ==
    /\ run["force"].phase = "idle"
    /\ \E data \in Latest :
       \E flt \in Faults(data) :
         LET f == Filter(db, seen_urls, ignored_redditors, data, Pairs[p].channel,
                         0, FALSE, flt)
             \* "latest" leaves one post at most: the "webhooks" setting
             \* decides nothing that Call keeps
             r == Call(f, data, Pairs[p].channel, 0, FALSE, FALSE)
         IN  /\ seen_urls' = f.seen
             /\ run' = IF r.phase = "dispatch" /\ r.posts # << >>
                        THEN [run EXCEPT !["force"] = r]
                        ELSE \* nothing to send, or the exception goes to the
                             \* command framework: the command is over
                             run
    /\ UNCHANGED <<all_channels, tables, lock, wr, db, favorites, ignored_redditors, last_post, bg, notified, owners_msgs, ret>>

\* lines 837-866 and 558-561: the one admitted post is sent (or the send
\* fails), format_send returns and the command ends; nothing is written
\* the returned time is written as the cursor of the channel's subscription
ForceEnd_mut ==
    /\ run["force"].phase = "dispatch"
    /\ run' = [run EXCEPT !["force"] = Idle]
    /\ last_post' = [p \in 1..Len(Pairs) |->
                        IF Pairs[p].channel = run["force"].channel
                        THEN run["force"].time ELSE last_post[p]]
    /\ UNCHANGED <<all_channels, tables, lock, wr, db, favorites, seen_urls, ignored_redditors, bg, notified, owners_msgs, ret>>
ForceEnd ==
    /\ run["force"].phase = "dispatch"
    /\ run' = [run EXCEPT !["force"] = Idle]
    /\ UNCHANGED <<all_channels, tables, lock, wr, db, favorites, seen_urls, ignored_redditors, last_post, bg, notified, owners_msgs, ret>>

(***************************************************************************)
(* The process stops and is started again: tasks are gone, the sqlite file *)
(* and the config keep their content.                                      *)
(***************************************************************************)
\* the seen rows live in memory and are gone with the process
Restart_mut ==
    /\ (\E t \in Tasks : run[t].phase # "idle") \/ bg.pc = "dead"
    /\ run' = [t \in Tasks |-> Idle]
    /\ bg' = BgStart
    /\ notified' = FALSE
    /\ owners_msgs' = 0
    /\ seen_urls' = EmptyTable(Urls)
    /\ UNCHANGED <<all_channels, tables, lock, wr, db, favorites, ignored_redditors, last_post, ret>>
Restart ==
    /\ (\E t \in Tasks : run[t].phase # "idle") \/ bg.pc = "dead"
    /\ run' = [t \in Tasks |-> Idle]
    /\ bg' = BgStart
    /\ notified' = FALSE
    /\ owners_msgs' = 0
    /\ UNCHANGED <<all_channels, tables, lock, wr, db, favorites, seen_urls, ignored_redditors, last_post, ret>>

(***************************************************************************)
(* Direct calls of the store methods (the entry points of the command and  *)
(* reaction layer)                                                         *)
(***************************************************************************)
Outcome(op, g, k, fault, r) ==
    [op |-> op, guildID |-> g, key |-> k, url |-> NoUrl, userID |-> None,
     fault |-> fault, ret |-> r.ret, exc |-> r.exc]

\* ignoreAuthor
IgnoreAuthor(g, a) ==
    /\ ignored_redditors[g][a] < MaxRows
    /\ \E fault \in BOOLEAN :
         LET r == db_add_ignored_redditor(db, ignored_redditors, g, a, fault)
         IN  /\ ignored_redditors' = r.tbl
             /\ ret' = Outcome("add_ignored_redditor", g, a, fault, r)
    /\ UNCHANGED <<all_channels, tables, lock, wr, db, favorites, seen_urls, last_post, bg, run, notified, owners_msgs>>

\* unignoreAuthor
UnignoreAuthor(g, a) ==
    /\ \E fault \in BOOLEAN :
         LET r == db_del_ignored_redditor(db, ignored_redditors, g, a, fault)
         IN  /\ ignored_redditors' = r.tbl
             /\ ret' = Outcome("del_ignored_redditor", g, a, fault, r)
    /\ UNCHANGED <<all_channels, tables, lock, wr, db, favorites, seen_urls, last_post, bg, run, notified, owners_msgs>>

\* isIgnored
IsIgnoredCall(g, a) ==
    /\ \E fault \in BOOLEAN :
         LET r == db_get_ignored_redditor(db, ignored_redditors, g, a, fault)
         IN  ret' = Outcome("get_ignored_redditor", g, a, fault, r)
    /\ UNCHANGED <<all_channels, tables, lock, wr, db, favorites, seen_urls, ignored_redditors, last_post, bg, run, notified, owners_msgs>>

\* markSeen
MarkSeen(g, u) ==
    /\ seen_urls[g][u] < MaxRows
    /\ \E fault \in BOOLEAN :
         LET r == db_add_seen_url(db, seen_urls, g, u, fault)
         IN  /\ seen_urls' = r.tbl
             /\ ret' = Outcome("add_seen_url", g, u, fault, r)
    /\ UNCHANGED <<all_channels, tables, lock, wr, db, favorites, ignored_redditors, last_post, bg, run, notified, owners_msgs>>

\* hasSeen
HasSeen(g, u) ==
    /\ \E fault \in BOOLEAN :
         LET r == db_get_seen_url(db, seen_urls, g, u, fault)
         IN  ret' = Outcome("get_seen_url", g, u, fault, r)
    /\ UNCHANGED <<all_channels, tables, lock, wr, db, favorites, seen_urls, ignored_redditors, last_post, bg, run, notified, owners_msgs>>

\* the favorites table exists in redditmmdb.py only
FavOutcome(op, g, a, u, usr, fault, r) ==
    [Outcome(op, g, a, fault, r) EXCEPT !.url = u, !.userID = usr]

TotalFavorites(tbl) == Rows(tbl[1], FavKeys) + Rows(tbl[2], FavKeys)

\* addFavorite
AddFavorite(g, a, u, usr) ==
    /\ \/ TotalFavorites(favorites) < MaxFavorites
       \/ favorites[g][[redditor |-> a, url |-> u, userID |-> usr]] > 0
    /\ \E fault \in BOOLEAN :
         LET r == add_favorite(favorites, g, a, u, usr, fault)
         IN  /\ favorites' = r.tbl
             /\ ret' = FavOutcome("add_favorite", g, a, u, usr, fault, r)
    /\ UNCHANGED <<all_channels, tables, lock, wr, db, seen_urls, ignored_redditors, last_post, bg, run, notified, owners_msgs>>

\* favoriteCount
FavoriteCount(g, a, u, usr) ==
    /\ \E fault \in BOOLEAN :
         LET r == get_favorite(favorites, g, a, u, usr, fault)
         IN  ret' = FavOutcome("get_favorite", g, a, u, usr, fault, r)
    /\ UNCHANGED <<all_channels, tables, lock, wr, db, favorites, seen_urls, ignored_redditors, last_post, bg, run, notified, owners_msgs>>

\* removeFavorite
RemoveFavorite(g, a, u, usr) ==
    /\ \E fault \in BOOLEAN :
         LET r == del_favorite(favorites, g, a, u, usr, fault)
         IN  /\ favorites' = r.tbl
             /\ ret' = FavOutcome("del_favorite", g, a, u, usr, fault, r)
    /\ UNCHANGED <<all_channels, tables, lock, wr, db, seen_urls, ignored_redditors, last_post, bg, run, notified, owners_msgs>>

\* the entry points add_ignored_redditor / del_ignored_redditor of the store
\* called while the poll loop runs, by a caller that keeps nothing of the
\* result
Ignore(g, a) ==
    /\ ignored_redditors[g][a] < MaxIgnores
    /\ \E fault \in BOOLEAN :
         ignored_redditors' = db_add_ignored_redditor(db, ignored_redditors, g, a, fault).tbl
    /\ UNCHANGED <<all_channels, tables, lock, wr, db, favorites, seen_urls, last_post, bg, run, notified, owners_msgs, ret>>

Unignore(g, a) ==
    /\ \E fault \in BOOLEAN :
         ignored_redditors' = db_del_ignored_redditor(db, ignored_redditors, g, a, fault).tbl
    /\ UNCHANGED <<all_channels, tables, lock, wr, db, favorites, seen_urls, last_post, bg, run, notified, owners_msgs, ret>>

ChannelGuilds == {GuildOf(c) : c \in Channels}

(***************************************************************************)
(* The reaction handlers, lines 285-384                                    *)
(***************************************************************************)
\* None as the redditor of a message
NoRedditor == ""
\* embed.footer.text as its characters; format_send writes "u/<author>"
\* (line 794)
NoFooter == << >>
Footers == {<<"u", "/", a>> : a \in Redditors} \cup {<<"u">>, NoFooter}
\* a message: with or without an embed, the first embed with or without a
\* footer text
Messages == [embeds : {0, 1}, footer : Footers]

RECURSIVE split(_, _)
\* ft.split('/'): the pieces of the text between the separators
split(text, sep) ==
    IF \A i \in 1..Len(text) : text[i] # sep THEN <<text>>
    ELSE LET p == CHOOSE i \in 1..Len(text) :
                     text[i] = sep /\ \A j \in 1..(i - 1) : text[j] # sep
         IN  <<SubSeq(text, 1, p - 1)>> \o split(SubSeq(text, p + 1, Len(text)), sep)

\* the string with the characters of piece (the names of the model have one)
Str(piece) == IF Len(piece) = 1 THEN piece[1] ELSE NoRedditor

\* lines 285-304
get_message_redditor(message) ==
    IF message.embeds < 1 THEN NoRedditor
    ELSE IF message.footer = NoFooter THEN NoRedditor
    ELSE LET ftarr == split(message.footer, "/")
         IN  IF Len(ftarr) < 2 THEN NoRedditor ELSE Str(ftarr[2])

\* lines 329, 369 call `get_message_redditor(...)`, not
\* `self.get_message_redditor(...)`: the name is looked up in the module,
\* which binds no such name
RedditorBound == FALSE

\* lines 334, 338, 374, 378 call the coroutine functions of the store
\* without `await`: the call makes a coroutine object, which is not None,
\* and runs no statement of the method
Awaited == FALSE

\* who reacts, and with what
Reactions == [user : {"member", "me"}, emoji : {"x", "other"}, message : Messages]

\* on_reaction_add from line 328, for a member's reaction
on_reaction_add(cls, tbl, guildID, reaction, fault) ==
    IF reaction.emoji # "x" THEN [tbl |-> tbl, exc |-> "none"]
    ELSE IF ~RedditorBound THEN [tbl |-> tbl, exc |-> "NameError"]
    ELSE
    LET redditor == get_message_redditor(reaction.message)
    IN
    IF redditor = NoRedditor THEN [tbl |-> tbl, exc |-> "none"]
    ELSE IF ~Awaited
    THEN \* line 334: `<coroutine> is not None`
         [tbl |-> tbl, exc |-> "none"]
    ELSE
    LET ig == db_get_ignored_redditor(cls, tbl, guildID, redditor, fault)
    IN
    IF ig.exc # "none" \/ ig.ret # None THEN [tbl |-> tbl, exc |-> ig.exc]
    ELSE LET ad == db_add_ignored_redditor(cls, tbl, guildID, redditor, fault)
         IN  [tbl |-> ad.tbl, exc |-> ad.exc]

\* on_reaction_remove from line 368, for a member's reaction
on_reaction_remove(cls, tbl, guildID, reaction, fault) ==
    IF reaction.emoji # "x" THEN [tbl |-> tbl, exc |-> "none"]
    ELSE IF ~RedditorBound THEN [tbl |-> tbl, exc |-> "NameError"]
    ELSE
    LET redditor == get_message_redditor(reaction.message)
    IN
    IF redditor = NoRedditor THEN [tbl |-> tbl, exc |-> "none"]
    ELSE IF ~Awaited
    THEN \* line 374 is false for a coroutine object, line 378 makes another
         \* one, line 379 compares it with 1
         [tbl |-> tbl, exc |-> "TypeError"]
    ELSE
    LET ig == db_get_ignored_redditor(cls, tbl, guildID, redditor, fault)
    IN
    IF ig.exc # "none" \/ ig.ret = None THEN [tbl |-> tbl, exc |-> ig.exc]
    ELSE LET dl == db_del_ignored_redditor(cls, tbl, guildID, redditor, fault)
         IN  [tbl |-> dl.tbl, exc |-> dl.exc]

\* what the handler leaves: `key` is the redditor the message names
Handled(op, g, reaction, r) ==
    [op |-> op, guildID |-> g, key |-> get_message_redditor(reaction.message), url |-> NoUrl,
     userID |-> None, fault |-> FALSE, ret |-> None, exc |-> r.exc]

\* lines 306-343; lines 310-325 return for a reaction of the bot itself
OnReactionAdd(g, reaction) ==
    /\ \E fault \in BOOLEAN :
         LET r == on_reaction_add(db, ignored_redditors, g, reaction, fault)
         IN  IF reaction.user = "me" \/ reaction.emoji # "x"
             THEN UNCHANGED <<ignored_redditors, ret>>
             ELSE /\ ignored_redditors' = r.tbl
                  /\ ret' = Handled("on_reaction_add", g, reaction, r)
    /\ UNCHANGED <<all_channels, tables, lock, wr, db, favorites, seen_urls, last_post, bg, run, notified, owners_msgs>>

\* lines 346-384
OnReactionRemove(g, reaction) ==
    /\ \E fault \in BOOLEAN :
         LET r == on_reaction_remove(db, ignored_redditors, g, reaction, fault)
         IN  IF reaction.user = "me" \/ reaction.emoji # "x"
             THEN UNCHANGED <<ignored_redditors, ret>>
             ELSE /\ ignored_redditors' = r.tbl
                  /\ ret' = Handled("on_reaction_remove", g, reaction, r)
    /\ UNCHANGED <<all_channels, tables, lock, wr, db, favorites, seen_urls, last_post, bg, run, notified, owners_msgs>>

\* the poll loop, changes of the ignore list of the channels' guild, and
\* restarts
Next ==
    \/ DoFeeds
    \/ FetchFeed
    \/ SkipPair
    \/ FormatSend
    \/ Send("bg")
    \/ WriteCursor
    \/ Sleep
    \/ Wake
    \/ BgLoopExcept
    \/ Restart
    \/ \E g \in ChannelGuilds, a \in Redditors : Ignore(g, a)
    \/ \E g \in ChannelGuilds, a \in Redditors : Unignore(g, a)

Spec == Init /\ [][Next]_vars

\* the poll loop and force commands running next to it
NextForce ==
    \/ DoFeeds
    \/ FetchFeed
    \/ SkipPair
    \/ FormatSend
    \/ Send("bg")
    \/ WriteCursor
    \/ Sleep
    \/ Wake
    \/ BgLoopExcept
    \/ \E p \in 1..Len(Pairs) : Force(p)
    \/ ForceEnd

SpecForce == Init /\ [][NextForce]_vars

\* the store alone, called directly for every guild
NextStore ==
    \/ \E g \in Guilds, u \in Urls : MarkSeen(g, u)
    \/ \E g \in Guilds, u \in Urls : HasSeen(g, u)
    \/ \E g \in Guilds, a \in Redditors : IgnoreAuthor(g, a)
    \/ \E g \in Guilds, a \in Redditors : UnignoreAuthor(g, a)
    \/ \E g \in Guilds, a \in Redditors : IsIgnoredCall(g, a)

SpecStore == Init /\ [][NextStore]_vars

\* the ignore list alone
NextIgnore ==
    \/ \E g \in Guilds, a \in Redditors : IgnoreAuthor(g, a)
    \/ \E g \in Guilds, a \in Redditors : UnignoreAuthor(g, a)
    \/ \E g \in Guilds, a \in Redditors : IsIgnoredCall(g, a)

SpecIgnore == Init /\ [][NextIgnore]_vars

\* the reaction handlers, next to direct calls of the ignore-list entry
\* points
NextReaction ==
    \/ \E g \in Guilds, reaction \in Reactions : OnReactionAdd(g, reaction)
    \/ \E g \in Guilds, reaction \in Reactions : OnReactionRemove(g, reaction)
    \/ \E g \in Guilds, a \in Redditors : IgnoreAuthor(g, a)
    \/ \E g \in Guilds, a \in Redditors : UnignoreAuthor(g, a)

SpecReaction == Init /\ [][NextReaction]_vars

\* the favorites of a store built from redditmmdb.py
InitFavorites == Init /\ db = "redditmmdb"

NextFavorites ==
    \/ \E g \in Guilds, a \in Redditors, u \in Urls, usr \in Users : AddFavorite(g, a, u, usr)
    \/ \E g \in Guilds, a \in Redditors, u \in Urls \cup {NoUrl}, usr \in Users \cup {None} :
          FavoriteCount(g, a, u, usr)
    \/ \E g \in Guilds, a \in Redditors, u \in Urls \cup {NoUrl}, usr \in Users \cup {None} :
          RemoveFavorite(g, a, u, usr)

SpecFavorites == InitFavorites /\ [][NextFavorites]_vars

\* the poll loop alone, over one life of the process
NextTick ==
    \/ DoFeeds
    \/ FetchFeed
    \/ SkipPair
    \/ FormatSend
    \/ Send("bg")
    \/ WriteCursor
    \/ Sleep
    \/ Wake
    \/ BgLoopExcept

SpecTick == Init /\ [][NextTick]_vars

\* the poll loop over two subscriptions, of the same subreddit or of two
InitShared ==
    /\ all_channels \in {SharedFeed, OtherFeed}
    /\ db \in DBClasses
    /\ seen_urls = EmptyTable(Urls)
    /\ ignored_redditors = EmptyTable(Redditors)
    /\ last_post = [p \in 1..Len(Pairs) |-> 0]
    /\ bg = BgStart
    /\ run = [t \in Tasks |-> Idle]
    /\ notified = FALSE
    /\ owners_msgs = 0
    /\ favorites = EmptyTable(FavKeys)
    /\ ret = NoCall
    /\ StoreReady

\* one tick: do_feeds from its call to its return (or to the exception that
\* leaves it)
NextShared ==
    \/ DoFeeds
    \/ FetchFeed
    \/ SkipPair
    \/ FormatSend
    \/ Send("bg")
    \/ WriteCursor
    \/ Sleep

SpecShared == InitShared /\ [][NextShared]_vars

\* one tick over two channels of one guild subscribed to the same subreddit,
\* and force commands for either channel running next to it
InitCross == InitShared /\ all_channels = SharedFeed

NextCross ==
    \/ DoFeeds
    \/ FetchFeed
    \/ SkipPair
    \/ FormatSend
    \/ Send("bg")
    \/ WriteCursor
    \/ Sleep
    \/ \E p \in 1..Len(Pairs) : Force(p)
    \/ ForceEnd

SpecCross == InitCross /\ [][NextCross]_vars

\* the poll loop over two subscriptions of one subreddit whose "latest"
\* setting is the one the config holds
InitLatest ==
    /\ all_channels \in LatestFeeds
    /\ db \in DBClasses
    /\ seen_urls = EmptyTable(Urls)
    /\ ignored_redditors = EmptyTable(Redditors)
    /\ last_post = [p \in 1..Len(Pairs) |-> 0]
    /\ bg = BgStart
    /\ run = [t \in Tasks |-> Idle]
    /\ notified = FALSE
    /\ owners_msgs = 0
    /\ favorites = EmptyTable(FavKeys)
    /\ ret = NoCall
    /\ StoreReady

SpecLatest == InitLatest /\ [][NextShared]_vars

(***************************************************************************)
(* The writes of the store, statement by statement.  Every write method    *)
(* builds its query, enters `async with RedditMMDB._lock:`, executes the   *)
(* statement, commits and leaves the block.  Lock.acquire suspends only    *)
(* when the lock is held; the steps below let the tasks switch between any *)
(* two statements, which includes every switch asyncio can make.           *)
(***************************************************************************)
\* `async with RedditMMDB._lock:` goes on when the lock is not held
Locked_mut(l) == FALSE
Locked(l) == l # Unlocked

Write(op, table, redditor, url, userID) ==
    [pc |-> "acquire", op |-> op, table |-> table, guildID |-> 1, redditor |-> redditor,
     url |-> url, userID |-> userID]

\* the poll loop and the force command mark urls seen; the reaction layer
\* changes the ignore list and the favorites of the message's redditor
WriteCalls(t) ==
    IF t \in {"bg", "force"}
    THEN {Write("add_seen_url", "seen_urls", "", u, None) : u \in Urls}
    ELSE IF t = "reaction"
    THEN {Write("add_ignored_redditor", "ignored_redditors", "x", NoUrl, None),
          Write("del_ignored_redditor", "ignored_redditors", "x", NoUrl, None)}
         \cup (IF db = "redditmmdb"
               THEN {Write("add_favorite", "favorites", "x", "https://example.com/b", 1),
                     Write("del_favorite", "favorites", "x", NoUrl, None)}
               ELSE {})
    ELSE \* init, lines 20-22: the first table of Tables that does not exist
         {Write("prepare", Tables(db)[i], "", NoUrl, None) :
             i \in {j \in 1..Len(Tables(db)) :
                      /\ Tables(db)[j] \notin tables
                      /\ \A k \in 1..(j - 1) : Tables(db)[k] \in tables}}

\* the rows the statement of w finds under its key
RowsAt(w) ==
    IF w.op = "add_seen_url" THEN seen_urls[w.guildID][w.url]
    ELSE IF w.op = "add_ignored_redditor" THEN ignored_redditors[w.guildID][w.redditor]
    ELSE 0

\* the statement of w run on the tables as they are
Statement(w, fault) ==
    CASE w.op = "add_seen_url" -> db_add_seen_url(db, seen_urls, w.guildID, w.url, fault)
      [] w.op = "add_ignored_redditor" ->
            db_add_ignored_redditor(db, ignored_redditors, w.guildID, w.redditor, fault)
      [] w.op = "del_ignored_redditor" ->
            db_del_ignored_redditor(db, ignored_redditors, w.guildID, w.redditor, fault)
      [] w.op = "add_favorite" ->
            add_favorite(favorites, w.guildID, w.redditor, w.url, w.userID, fault)
      [] w.op = "del_favorite" ->
            del_favorite(favorites, w.guildID, w.redditor, w.url, w.userID, fault)
      [] OTHER -> \* CREATE TABLE / CREATE INDEX
            [tbl |-> << >>, ret |-> None, exc |-> IF fault THEN "DatabaseError" ELSE "none"]

\* the method is called: cursor and query are made, next is `async with`
Enter(t) ==
    /\ wr[t].pc = "idle"
    /\ \E w \in WriteCalls(t) :
         /\ RowsAt(w) < MaxRows
         /\ wr' = [wr EXCEPT ![t] = w]
    /\ UNCHANGED <<all_channels, tables, lock, db, seen_urls, ignored_redditors, last_post, bg,
                   run, notified, owners_msgs, favorites, ret>>

\* Lock.__aenter__
Acquire(t) ==
    /\ wr[t].pc = "acquire"
    /\ ~Locked(lock)
    /\ lock' = t
    /\ wr' = [wr EXCEPT ![t].pc = "execute"]
    /\ UNCHANGED <<all_channels, tables, db, seen_urls, ignored_redditors, last_post, bg, run,
                   notified, owners_msgs, favorites, ret>>

\* cur.execute(query): when it raises, the exception leaves the block and
\* Lock.__aexit__ releases the lock; a table that does not exist is an error
Execute(t) ==
    /\ wr[t].pc = "execute"
    /\ RowsAt(wr[t]) < MaxRows
    /\ \E fault \in BOOLEAN :
         IF Statement(wr[t], fault \/ (wr[t].op # "prepare" /\ wr[t].table \notin tables)).exc
                # "none"
         THEN /\ wr' = [wr EXCEPT ![t] = NoWrite]
              /\ lock' = Unlocked
         ELSE /\ wr' = [wr EXCEPT ![t].pc = "commit"]
              /\ lock' = lock
    /\ UNCHANGED <<all_channels, tables, db, seen_urls, ignored_redditors, last_post, bg, run,
                   notified, owners_msgs, favorites, ret>>

\* self.conn.commit() and Lock.__aexit__: the rows are written, the lock is
\* released
Commit(t) ==
    /\ wr[t].pc = "commit"
    /\ LET w == wr[t]
           r == Statement(w, FALSE)
       IN  /\ tables' = IF w.op = "prepare" THEN tables \cup {w.table} ELSE tables
           /\ seen_urls' = IF w.op = "add_seen_url" THEN r.tbl ELSE seen_urls
           /\ ignored_redditors' =
                 IF w.op \in {"add_ignored_redditor", "del_ignored_redditor"}
                 THEN r.tbl ELSE ignored_redditors
           /\ favorites' = IF w.op \in {"add_favorite", "del_favorite"} THEN r.tbl ELSE favorites
    /\ wr' = [wr EXCEPT ![t] = NoWrite]
    /\ lock' = Unlocked
    /\ UNCHANGED <<all_channels, db, last_post, bg, run, notified, owners_msgs, ret>>

\* RedditMM.__init__: the store object exists, init has connected and is
\* about to prepare the tables
InitLock ==
    /\ all_channels = OneFeed
    /\ db \in DBClasses
    /\ seen_urls = EmptyTable(Urls)
    /\ ignored_redditors = EmptyTable(Redditors)
    /\ last_post = [p \in 1..Len(Pairs) |-> 0]
    /\ bg = BgStart
    /\ run = [t \in Tasks |-> Idle]
    /\ notified = FALSE
    /\ owners_msgs = 0
    /\ favorites = EmptyTable(FavKeys)
    /\ ret = NoCall
    /\ tables = {}
    /\ lock = Unlocked
    /\ wr = [t \in Writers |-> NoWrite]

NextLock ==
    \/ \E t \in Writers : Enter(t)
    \/ \E t \in Writers : Acquire(t)
    \/ \E t \in Writers : Execute(t)
    \/ \E t \in Writers : Commit(t)

SpecLock == InitLock /\ [][NextLock]_vars

\* the writes of a store built from redditmmdb.py, called for every guild;
\* the redditor of an unignore is any text
Texts == Redditors \cup {Tautology}

NextIsolation ==
    \/ \E g \in Guilds, u \in Urls : MarkSeen(g, u)
    \/ \E g \in Guilds, a \in Redditors : IgnoreAuthor(g, a)
    \/ \E g \in Guilds, a \in Texts : UnignoreAuthor(g, a)
    \/ \E g \in Guilds : AddFavorite(g, "x", "https://example.com/b", 1)
    \/ \E g \in Guilds : RemoveFavorite(g, "x", NoUrl, None)

SpecIsolation == InitFavorites /\ [][NextIsolation]_vars

\* format_send as a function of its arguments and of the store: one call on
\* any batch, in any order, from any cursor, with any rows of the channel's
\* guild in the store
Batches == UNION {[1..n -> Submissions] : n \in 1..MaxBatch}

Stored(Keys) ==
    {tbl \in [Guilds -> [Keys -> {0, 1}]] :
        \A g \in Guilds \ ChannelGuilds, k \in Keys : tbl[g][k] = 0}

InitPipeline ==
    /\ all_channels = OneFeed
    /\ db \in DBClasses
    /\ seen_urls \in Stored(Urls)
    /\ ignored_redditors \in Stored(Redditors)
    /\ last_post \in [1..Len(Pairs) -> 0..MaxTime]
    /\ bg = [BgStart EXCEPT !.pc = "pairs"]
    /\ run = [t \in Tasks |-> Idle]
    /\ notified = FALSE
    /\ owners_msgs = 0
    /\ favorites = EmptyTable(FavKeys)
    /\ ret = NoCall
    /\ StoreReady

RunPipeline ==
    /\ run["bg"].phase = "idle"
    /\ \E data \in Batches, image_only \in BOOLEAN :
         LET channel == Pairs[bg.i].channel
             f == Filter(db, seen_urls, ignored_redditors, data, channel,
                         last_post[bg.i], image_only, NoFault)
         IN  /\ seen_urls' = f.seen
             /\ run' = [run EXCEPT !["bg"] =
                          Call(f, data, channel, last_post[bg.i], image_only, FALSE)]
    /\ UNCHANGED <<all_channels, tables, lock, wr, db, favorites, ignored_redditors, last_post, bg, notified, owners_msgs, ret>>

SpecPipeline == InitPipeline /\ [][RunPipeline]_vars


(***************************************************************************)
(* Properties                                                              *)
(***************************************************************************)
Range(s) == {s[i] : i \in 1..Len(s)}

\* task t has just run the filter loop of a format_send call to its end
Filtered(t) == run[t].phase = "idle" /\ run'[t].phase = "dispatch"

\* what the same format_send call would admit if it were made again now
Again(r) ==
    Filter(db, seen_urls, ignored_redditors, r.data, r.channel, r.last_post,
           r.image_only, NoFault).posts

\* candidate j of the call r passes every check that does not ask the store
Eligible(r, j) ==
    /\ j \in 1..Len(r.data)
    /\ ~(r.data[j].over_18 /\ ~is_nsfw(r.channel))
    /\ \A i \in 1..j : r.data[i].created_utc > r.last_post
    /\ ~(r.image_only /\ ~images(r.data[j]))

\* C1: pipeline idempotence.  When a format_send call has admitted its posts,
\* the same call (same batch, channel, starting cursor and settings) made
\* again right after it admits nothing, and the call itself admits no url
\* twice.
C1_Idempotent ==
    [][\A t \in Tasks : Filtered(t) =>
          /\ Again(run[t])' = << >>
          /\ \A i, j \in Range(run'[t].posts) :
                i # j => run'[t].data[i].url # run'[t].data[j].url]_vars

\* C1 witness: a call has admitted posts from a batch of two candidates
C1_Witness ==
    \E t \in Tasks : run[t].phase = "dispatch" /\ Len(run[t].data) = 2
                     /\ run[t].posts # << >>

\* C2 (the claim as stated): the cursor a call returns is never below the
\* cursor it started from.
C2_CursorMonotone ==
    \A t \in Tasks :
        (run[t].phase = "dispatch" /\ run[t].time # None) => run[t].time >= run[t].last_post

\* C3 (the claim as stated): a markSeen without an engine fault leaves the url
\* seen and returns; when the url was already seen it does not raise, does
\* not report an insert and leaves the rows as they were.
C3_MarkSeenIdempotent ==
    [][\A g \in Guilds, u \in Urls :
          (ret' # ret /\ ret'.op = "add_seen_url" /\ ret'.guildID = g /\ ret'.key = u
           /\ ~ret'.fault) =>
              /\ ret'.exc = "none"
              /\ get_seen_url(seen_urls', g, u, FALSE).ret # None
              /\ seen_urls[g][u] > 0 => (ret'.ret # 1 /\ seen_urls' = seen_urls)]_vars

\* C4: no double admission under concurrency.  A call admits only urls that
\* have no seen row when its filter loop runs, every url it admits has a seen
\* row when the loop ends, and two calls that are both in dispatch have
\* admitted no url in common.
C4_NoDoubleAdmission ==
    [][/\ \A t \in Tasks : Filtered(t) =>
             \A j \in Range(run'[t].posts) :
                /\ seen_urls[GuildOf(run'[t].channel)][run'[t].data[j].url] = 0
                /\ seen_urls'[GuildOf(run'[t].channel)][run'[t].data[j].url] = 1
       /\ (run'["bg"].phase = "dispatch" /\ run'["force"].phase = "dispatch"
           /\ GuildOf(run'["bg"].channel) = GuildOf(run'["force"].channel)) =>
             \A i \in Range(run'["bg"].posts), j \in Range(run'["force"].posts) :
                run'["bg"].data[i].url # run'["force"].data[j].url]_vars

\* C4 witness: a force command is still sending the post it admitted while
\* the poll tick has examined the same url and has not admitted it
C4_Witness ==
    /\ run["force"].phase = "dispatch" /\ run["force"].k = 1
    /\ run["bg"].phase = "dispatch"
    /\ \E j \in 1..Len(run["bg"].data) :
          /\ Eligible(run["bg"], j)
          /\ run["bg"].data[j].url = run["force"].data[1].url
          /\ j \notin Range(run["bg"].posts)

\* C5: cursor-write ordering.  last_post of a pair is written only by the poll
\* loop at that pair once the dispatch loop of its format_send call is over;
\* while the call is filtering or sending (and so after a stop of the process
\* at that point) the stored cursor is the one the call started from.
C5_WriteAfterDispatch ==
    [][/\ \A p \in 1..Len(Pairs) : last_post'[p] # last_post[p] =>
             (bg.pc = "pairs" /\ bg.i = p /\ run["bg"].phase = "dispatch" /\ run["bg"].k = 0)
       /\ (run'["bg"].phase = "dispatch" /\ run'["bg"].k > 0) =>
             last_post'[bg'.i] = run'["bg"].last_post]_vars

\* C5 witness: sends are still to be made and the call will return a cursor
\* greater than the stored one
C5_Witness ==
    run["bg"].phase = "dispatch" /\ run["bg"].k > 0 /\ run["bg"].time > last_post[bg.i]

\* C6 (the claim as stated): a write of last_post stores a strictly greater
\* value, so the stored cursor never decreases.
C6_PersistOnlyAdvance ==
    [][\A p \in 1..Len(Pairs) : last_post'[p] # last_post[p] => last_post'[p] > last_post[p]]_vars

\* C7: boundary.  Every post a call admits has created_utc strictly greater
\* than the starting cursor, and every url the call marks seen is the url of
\* a post it admitted: a candidate at the cursor is neither admitted nor
\* marked.
C7_Boundary ==
    [][\A t \in Tasks : Filtered(t) =>
          /\ \A j \in Range(run'[t].posts) : run'[t].data[j].created_utc > run'[t].last_post
          /\ \A u \in Urls :
                seen_urls'[GuildOf(run'[t].channel)][u] # seen_urls[GuildOf(run'[t].channel)][u] =>
                   \E j \in Range(run'[t].posts) : run'[t].data[j].url = u]_vars

\* C7 witness: a call that admitted a post had a candidate exactly at the
\* starting cursor in its batch
C7_Witness ==
    \E t \in Tasks :
        /\ run[t].phase = "dispatch" /\ run[t].posts # << >>
        /\ \E j \in 1..Len(run[t].data) :
              run[t].data[j].created_utc = run[t].last_post /\ ~run[t].data[j].over_18

\* C8: ignored authors are never admitted.  No post a call admits is by a
\* redditor who has a row in the guild's ignore list when the filter loop
\* runs.
C8_IgnoredNeverAdmitted ==
    [][\A t \in Tasks : Filtered(t) =>
          \A j \in Range(run'[t].posts) :
             ignored_redditors[GuildOf(run'[t].channel)][unescape(run'[t].data[j].author)] = 0]_vars

\* C8 witness: the only candidate is new, unseen and passes the other
\* filters, its author is ignored, and nothing was admitted
C8_Witness ==
    \E t \in Tasks :
        /\ run[t].phase = "dispatch" /\ Len(run[t].data) = 1 /\ Eligible(run[t], 1)
        /\ seen_urls[GuildOf(run[t].channel)][run[t].data[1].url] = 0
        /\ ignored_redditors[GuildOf(run[t].channel)][unescape(run[t].data[1].author)] > 0
        /\ run[t].posts = << >>

\* C9 (the claim as stated): a candidate whose ignore-check meets a storage
\* fault is not admitted; a candidate whose seen-check meets a storage fault
\* is treated as not seen, the call goes on.
C9_FailOpenFailClosed ==
    \A t \in Tasks :
        /\ run[t].at.call = "get_ignored_redditor" => run[t].at.i \notin Range(run[t].posts)
        /\ run[t].at.call = "get_seen_url" => run[t].phase = "dispatch"

\* C10 (the claim as stated): every store operation returns a value to its
\* caller, whatever the engine does.
C10_StoreNeverRaises == ret.exc = "none"

\* what the caller of a store method gets: the value, or the exception
Result(r) == <<r.ret, r.exc>>
Inserted == <<1, "none">>

\* C11 (the claim as stated): for an author who is already ignored, the
\* result of ignoreAuthor (a duplicate insert) differs from the result the
\* same call has under a storage fault, and both differ from the result of
\* a successful insert.
C11_TriState ==
    \A g \in Guilds, a \in Redditors :
        ignored_redditors[g][a] > 0 =>
            LET dup == Result(db_add_ignored_redditor(db, ignored_redditors, g, a, FALSE))
                flt == Result(db_add_ignored_redditor(db, ignored_redditors, g, a, TRUE))
            IN  dup # flt /\ dup # Inserted /\ flt # Inserted

\* C12: ignore / unignore.  After an ignoreAuthor(D,A) that returns, A is
\* ignored in D; after an unignoreAuthor(D,A) without an engine fault the
\* call has returned and A is not ignored in D; when A was not ignored the
\* call reports that nothing was removed (None or a count of 0) and the
\* ignore relation is as before.
C12_IgnoreUnignore ==
    [][LET g == ret'.guildID
           a == ret'.key
       IN  /\ (ret'.op = "add_ignored_redditor" /\ ret'.exc = "none") =>
                 db_get_ignored_redditor(db, ignored_redditors', g, a, FALSE).ret # None
           /\ (ret'.op = "del_ignored_redditor" /\ ~ret'.fault) =>
                 /\ ret'.exc = "none"
                 /\ db_get_ignored_redditor(db, ignored_redditors', g, a, FALSE).ret = None
                 /\ ignored_redditors[g][a] = 0 =>
                       (ret'.ret \in {None, 0} /\ ignored_redditors' = ignored_redditors)
                 /\ ignored_redditors[g][a] > 0 => ret'.ret > 0]_vars

\* C12 witness: an ignored author has just been unignored
C12_Witness ==
    /\ ret.op = "del_ignored_redditor" /\ ~ret.fault /\ ret.ret > 0
    /\ ignored_redditors[ret.guildID][ret.key] = 0

\* C13 (the claim as stated): the seen relation never holds two rows with
\* the same guildID and url.
C13_SeenUnique == \A g \in Guilds, u \in Urls : seen_urls[g][u] <= 1

\* C14 (the claim as stated): an addFavorite for a key that has a row returns
\* to its caller without reporting an insert and leaves one row for the key,
\* which favoriteCount(D, A) counts once; no key ever has two rows.
C14_OneFavorite ==
    [][LET g == ret'.guildID
           k == [redditor |-> ret'.key, url |-> ret'.url, userID |-> ret'.userID]
       IN  /\ (ret'.op = "add_favorite" /\ ~ret'.fault /\ favorites[g][k] > 0) =>
                 /\ ret'.exc = "none"
                 /\ ret'.ret # 1
                 /\ favorites'[g][k] = 1
                 /\ favorites' = favorites
           /\ \A d \in Guilds, x \in FavKeys : favorites'[d][x] <= 1]_vars

\* the poll loop's call has just attempted the send of one more post
Sent == /\ run["bg"].phase = "dispatch" /\ run'["bg"].phase = "dispatch"
        /\ run'["bg"].k < run["bg"].k

\* C15: delivery order.  The first send of a call is for the post admitted
\* last, every later send is for a post that stands earlier in the batch
\* than the one before it, and (the batch being newest first) has a greater
\* created_utc.
C15_DeliveryOrder ==
    [][Sent =>
         LET r == run["bg"]
             now == run'["bg"].sending
         IN  /\ now \in Range(r.posts)
             /\ r.sending = 0 => now = r.posts[Len(r.posts)]
             /\ r.sending # 0 =>
                   /\ now < r.sending
                   /\ r.data[now].created_utc > r.data[r.sending].created_utc]_vars

\* C15 witness: two posts were admitted and the send of both has been
\* attempted, the one admitted first last
C15_Witness ==
    /\ run["bg"].phase = "dispatch" /\ Len(run["bg"].posts) = 2
    /\ run["bg"].k = 0 /\ run["bg"].sending = run["bg"].posts[1]

\* candidate i of the call r is where the scan stops: not skipped as adult
\* content and not newer than the starting cursor
StopsAt(r, i) ==
    /\ i \in 1..Len(r.data)
    /\ ~(r.data[i].over_18 /\ ~is_nsfw(r.channel))
    /\ r.data[i].created_utc <= r.last_post

\* C16: scan stop.  When a call has filtered a batch in which candidate i
\* is not skipped as adult content and has created_utc <= the starting
\* cursor, no candidate at position i or later is admitted, and every url
\* the call marks seen is the url of a post admitted before position i.
C16_ScanStop ==
    [][Filtered("bg") =>
         LET r == run'["bg"]
             g == GuildOf(r.channel)
         IN  \A i \in 1..Len(r.data) : StopsAt(r, i) =>
                /\ \A j \in Range(r.posts) : j < i
                /\ \A u \in Urls : seen_urls'[g][u] # seen_urls[g][u] =>
                      \E j \in Range(r.posts) : j < i /\ r.data[j].url = u]_vars

\* C16 witness: behind the candidate where the scan stopped stands one that
\* is newer than the cursor, not adult, unseen and by an author who is not
\* ignored, and it was not admitted
C16_Witness ==
    LET r == run["bg"]
        g == GuildOf(r.channel)
    IN  /\ r.phase = "dispatch"
        /\ \E i, j \in 1..Len(r.data) :
              /\ StopsAt(r, i) /\ i < j
              /\ r.data[j].created_utc > r.last_post /\ ~r.data[j].over_18
              /\ seen_urls[g][r.data[j].url] = 0
              /\ ignored_redditors[g][unescape(r.data[j].author)] = 0
              /\ j \notin Range(r.posts)

\* C17: image-only filter.  A call with image_only set admits no candidate
\* in whose url format_send recognises no media, and marks seen only urls
\* of posts it admitted.
C17_ImageOnly ==
    [][(Filtered("bg") /\ run'["bg"].image_only) =>
         LET r == run'["bg"]
             g == GuildOf(r.channel)
         IN  /\ \A j \in Range(r.posts) : images(r.data[j])
             /\ \A u \in Urls : seen_urls'[g][u] # seen_urls[g][u] =>
                   \E j \in Range(r.posts) : r.data[j].url = u /\ images(r.data[j])]_vars

\* C17 witness: the only candidate of an image-only call is new, not adult,
\* unseen and by an author who is not ignored, its url is no media link,
\* and it was neither admitted nor marked
C17_Witness ==
    LET r == run["bg"]
        g == GuildOf(r.channel)
    IN  /\ r.phase = "dispatch" /\ r.image_only /\ Len(r.data) = 1
        /\ r.data[1].created_utc > r.last_post /\ ~r.data[1].over_18
        /\ ~images(r.data[1])
        /\ seen_urls[g][r.data[1].url] = 0
        /\ ignored_redditors[g][unescape(r.data[1].author)] = 0
        /\ r.posts = << >>

\* C18 (the claim as stated): the background loop is never ended by an
\* exception, also when the message to the owners cannot be sent.
C18_LoopAlive == bg.pc # "dead"

\* C19: operator notification.  Within one life of the process the owners
\* get at most one message; the handler of a failure met with notified
\* unset sends it and sets notified, the handler of every later failure
\* sends nothing.
C19_NotifyOnce ==
    [][/\ owners_msgs' <= 1
       /\ (bg.pc = "except" /\ ~notified /\ bg'.pc = "do_feeds") =>
             (owners_msgs' = owners_msgs + 1 /\ notified')
       /\ (bg.pc = "except" /\ notified) =>
             (owners_msgs' = owners_msgs /\ notified' /\ bg'.pc = "do_feeds")]_vars

\* C19 witness: a tick has failed after the owners were notified
C19_Witness == bg.pc = "except" /\ notified /\ owners_msgs = 1

\* C20 (the claim as stated): when the dispatch loop of a call is over, the
\* send of every admitted post has been attempted, the last attempt being
\* for the post admitted first.
C20_SendFailureContinues ==
    (run["bg"].phase = "dispatch" /\ run["bg"].k = 0 /\ run["bg"].posts # << >>) =>
        run["bg"].sending = run["bg"].posts[1]

\* C21: fetch at most once per tick.  While do_feeds runs, fetch_feed has
\* been called at most once for each subreddit, however many pairs name it
\* and whatever the first call returned.
C21_FetchOnce == \A s \in Subs : bg.fetches[s] <= 1

\* C21 witness: the tick is at the second pair of a subreddit whose one
\* fetch returned None
C21_Witness ==
    /\ bg.pc = "pairs" /\ bg.i = 2 /\ Pairs[2].sub = Pairs[1].sub
    /\ bg.feeds[Pairs[2].sub].fetched /\ bg.feeds[Pairs[2].sub].resp = NoResponse
    /\ bg.fetches[Pairs[2].sub] = 1

\* the tick stands at a pair whose subreddit has the response None
AtFailed ==
    /\ AtPair
    /\ bg.feeds[Pairs[bg.i].sub].fetched
    /\ bg.feeds[Pairs[bg.i].sub].resp = NoResponse

\* C22: fetch failure means no update.  At every pair of a subreddit whose
\* fetch returned None the tick admits nothing, inserts no seen row, writes
\* no cursor and goes on to the next pair.
C22_FetchFailure ==
    [][AtFailed =>
         /\ run' = run /\ seen_urls' = seen_urls /\ last_post' = last_post
         /\ bg'.pc = "pairs" /\ bg'.i = bg.i + 1]_vars

\* C22 witness: the tick has admitted a post for the second pair, which
\* names another subreddit than the first, after the first pair was skipped:
\* its subreddit was fetched and its cursor is still the initial one, which
\* any batch, being newer, would have moved
C22_Witness ==
    /\ bg.pc = "pairs" /\ bg.i = 2 /\ Pairs[2].sub # Pairs[1].sub
    /\ bg.fetches[Pairs[1].sub] = 1 /\ last_post[1] = 0
    /\ \A u \in Urls :
          seen_urls[GuildOf(run["bg"].channel)][u]
             = Cardinality({j \in Range(run["bg"].posts) : run["bg"].data[j].url = u})
    /\ run["bg"].phase = "dispatch" /\ run["bg"].posts # << >>

\* task t is inside the lock: between Lock.__aenter__ and Lock.__aexit__
InLock(t) == wr[t].pc \in {"execute", "commit"}

\* C23: write mutual exclusion.  At most one task is inside the lock at any
\* time, and the rows of every table, and the set of tables, change only in
\* the commit of the task that is inside the lock.
C23_WriteExclusion ==
    [][/\ \A t, u \in Writers : (InLock(t)' /\ InLock(u)') => t = u
       /\ <<tables, seen_urls, ignored_redditors, favorites>>'
             # <<tables, seen_urls, ignored_redditors, favorites>> =>
                \E t \in Writers : /\ InLock(t) /\ lock = t /\ wr[t].pc = "commit"
                                   /\ wr'[t].pc = "idle" /\ lock' = Unlocked]_vars

\* C23 witness: a task is inside the lock with its statement executed and
\* not yet committed while two other tasks wait for the lock
C23_Witness ==
    \E t \in Writers :
        /\ wr[t].pc = "commit" /\ lock = t
        /\ Cardinality({u \in Writers : wr[u].pc = "acquire"}) >= 2

\* what hasSeen, isIgnored, listIgnoredAuthors and favoriteCount answer for
\* guild d, for every argument
Reads(d) ==
    [hasSeen |-> [u \in Urls |-> db_get_seen_url(db, seen_urls, d, u, FALSE).ret],
     isIgnored |-> [a \in Redditors |->
                       db_get_ignored_redditor(db, ignored_redditors, d, a, FALSE).ret],
     listIgnored |-> get_all_ignored_redditors(ignored_redditors, d, FALSE).ret,
     favoriteCount |-> [a \in Redditors, u \in Urls \cup {NoUrl}, usr \in Users \cup {None} |->
                           get_favorite(favorites, d, a, u, usr, FALSE).ret]]

\* C24 (the claim as stated): a write called for guild D changes no answer
\* of hasSeen, isIgnored, listIgnoredAuthors and favoriteCount for another
\* guild.
C24_Isolation ==
    [][\A d \in Guilds : d # ret'.guildID => Reads(d)' = Reads(d)]_vars

\* C25: seen entries are append-only.  No step of the poll loop, of the
\* pipeline, of the ignore-list handlers or of a restart removes a seen row,
\* and a url for which get_seen_url finds a row keeps being found.
C25_SeenAppendOnly ==
    [][\A g \in Guilds, u \in Urls :
          /\ seen_urls'[g][u] >= seen_urls[g][u]
          /\ db_get_seen_url(db, seen_urls, g, u, FALSE).ret # None =>
                db_get_seen_url(db, seen_urls', g, u, FALSE).ret # None]_vars

\* C25 witness: a url is still seen after its cursor was written, an author
\* was ignored and the process was started again
C25_Witness ==
    /\ \E g \in Guilds, u \in Urls : db_get_seen_url(db, seen_urls, g, u, FALSE).ret # None
    /\ \E a \in Redditors : ignored_redditors[1][a] > 0
    /\ last_post[1] > 0
    /\ bg = BgStart

\* the process stops while the poll loop's call still has posts to send
Crashed ==
    /\ run["bg"].phase = "dispatch" /\ run["bg"].k > 0
    /\ run'["bg"].phase = "idle"

\* C26: crash window.  When the process stops with admitted posts unsent,
\* their urls have a seen row after the restart, and no call admits a url
\* that has a seen row when its filter loop starts: the post is not admitted
\* again and stays undelivered.
C26_CrashWindow ==
    [][/\ Crashed =>
             \A j \in 1..run["bg"].k :
                seen_urls'[GuildOf(run["bg"].channel)][run["bg"].data[run["bg"].posts[j]].url] > 0
       /\ Filtered("bg") =>
             \A j \in Range(run'["bg"].posts) :
                seen_urls[GuildOf(run'["bg"].channel)][run'["bg"].data[j].url] = 0]_vars

\* C26 witness: a url was admitted by a call that never returned (the
\* cursor is still 0 and no exception was handled), and a later call has
\* examined the url, new and by an author not ignored, and not admitted it
C26_Witness ==
    LET r == run["bg"]
        g == GuildOf(r.channel)
    IN  /\ r.phase = "dispatch" /\ last_post[1] = 0 /\ ~notified
        /\ \E j \in 1..Len(r.data) :
              /\ Eligible(r, j)
              /\ ignored_redditors[g][unescape(r.data[j].author)] = 0
              /\ seen_urls[g][r.data[j].url] > 0
              /\ \A i \in Range(r.posts) : r.data[i].url # r.data[j].url

\* the keys with a favorites row in guild g that are by redditor a and agree
\* with url and userID where these are given
Agrees(k, a, url, userID) ==
    /\ k.redditor = a
    /\ url # NoUrl => k.url = url
    /\ userID # None => k.userID = userID

Matching(tbl, g, a, url, userID) ==
    {k \in FavKeys : tbl[g][k] > 0 /\ Agrees(k, a, url, userID)}

\* C27: favoriteCount.  A get_favorite call without an engine fault returns
\* the number of rows of the guild that are by the redditor and agree with
\* every filter given, and None when there is no such row.
C27_FavoriteCount ==
    (ret.op = "get_favorite" /\ ~ret.fault) =>
        LET n == Cardinality(Matching(favorites, ret.guildID, ret.key, ret.url, ret.userID))
        IN  /\ ret.exc = "none"
            /\ ret.ret = IF n = 0 THEN None ELSE n
            /\ ret.ret # 0

\* C27 witness: a count with both filters given is 1 while the redditor has
\* two rows in the guild
C27_Witness ==
    /\ ret.op = "get_favorite" /\ ~ret.fault /\ ret.url # NoUrl /\ ret.userID # None
    /\ ret.ret = 1
    /\ Cardinality(Matching(favorites, ret.guildID, ret.key, NoUrl, None)) = 2

\* C28: removeFavorite.  A del_favorite call without an engine fault deletes
\* the rows that match its arguments and no other row, returns their number,
\* and get_favorite with the same arguments then returns None; when no row
\* matches it returns None and the table is as before.
C28_RemoveFavorite ==
    [][(ret'.op = "del_favorite" /\ ~ret'.fault) =>
         LET g == ret'.guildID
             n == Cardinality(Matching(favorites, g, ret'.key, ret'.url, ret'.userID))
         IN  /\ ret'.exc = "none"
             /\ favorites' =
                   [d \in Guilds |-> [k \in FavKeys |->
                       IF d = g /\ Agrees(k, ret'.key, ret'.url, ret'.userID)
                       THEN 0 ELSE favorites[d][k]]]
             /\ get_favorite(favorites', g, ret'.key, ret'.url, ret'.userID, FALSE).ret = None
             /\ ret'.ret = IF n = 0 THEN None ELSE n
             /\ n = 0 => favorites' = favorites]_vars

\* C28 witness: a removal with a filter has deleted one row and left
\* another row of the same redditor in the guild
C28_Witness ==
    /\ ret.op = "del_favorite" /\ ~ret.fault /\ ret.ret = 1
    /\ (ret.url # NoUrl \/ ret.userID # None)
    /\ Matching(favorites, ret.guildID, ret.key, NoUrl, None) # {}

\* the candidates of the call r that the scan examines: those before the
\* first one at which it stops
Examined(r) == {i \in 1..Len(r.data) : \A j \in 1..i : ~StopsAt(r, j)}

Greatest(S) == CHOOSE m \in S : \A x \in S : x <= m

\* C29 (the claim as stated): the cursor a call gives back (the starting
\* cursor when it returns None) is the greatest of the starting cursor and
\* of created_utc of the candidates examined, skipped ones included.
C29_ReturnedCursor ==
    \A t \in Tasks :
        run[t].phase = "dispatch" =>
            (IF run[t].time = None THEN run[t].last_post ELSE run[t].time)
              = Greatest({run[t].last_post}
                         \cup {run[t].data[i].created_utc : i \in Examined(run[t])})

\* C30 (the claim as stated): no format_send call ends with an exception,
\* and do_feeds is not left while pairs of the tick remain.
C30_PairIsolation ==
    /\ run["bg"].phase # "raised"
    /\ bg.pc = "except" => bg.i > Len(Pairs)

\* the urls the call r admitted, each with the number of admitted posts
\* that have it
Admitted(r, u) == Cardinality({j \in Range(r.posts) : r.data[j].url = u})

\* C31: seen marks follow admission exactly.  When a call has run its filter
\* loop to the end, every url of the channel's guild has the rows it had
\* before plus one for each post the call admitted with that url, so a
\* candidate that was skipped is not marked; the rows of other guilds are as
\* before; a call that returns without a dispatch marks nothing; and the
\* marks are there when no send has been attempted yet.
C31_SeenFollowsAdmission ==
    [][/\ \A t \in Tasks : Filtered(t) =>
             LET r == run'[t]
                 g == GuildOf(r.channel)
             IN  /\ \A u \in Urls : seen_urls'[g][u] = seen_urls[g][u] + Admitted(r, u)
                 /\ \A d \in Guilds \ {g} : seen_urls'[d] = seen_urls[d]
                 /\ r.sending = 0 /\ r.k = Len(r.posts)
       /\ (\A t \in Tasks : run[t].phase = "idle" /\ run'[t].phase = "idle") =>
             seen_urls' = seen_urls]_vars

\* C31 witness: of two candidates newer than the cursor one was admitted and
\* has its row, the other was skipped and has none, and no send was
\* attempted yet
C31_Witness ==
    LET r == run["bg"]
        g == GuildOf(r.channel)
    IN  /\ r.phase = "dispatch" /\ r.sending = 0 /\ r.k = 1
        /\ Len(r.data) = 2 /\ Len(r.posts) = 1
        /\ \A j \in 1..2 : r.data[j].created_utc > r.last_post
        /\ seen_urls[g][r.data[r.posts[1]].url] = 1
        /\ \E j \in 1..2 : j # r.posts[1] /\ seen_urls[g][r.data[j].url] = 0

\* the batch is ordered newest first (submissions of the same second in any
\* order)
Ordered(data) == \A i, j \in 1..Len(data) : i < j => data[i].created_utc >= data[j].created_utc

AdultBlocked(r, i) == r.data[i].over_18 /\ ~is_nsfw(r.channel)

\* C33: adult-content skip.  A candidate flagged over_18 in a channel that
\* is not NSFW is not admitted, its url gets no seen row unless an admitted
\* post has the same url, and the scan goes on behind it whatever its
\* created_utc: a later candidate that no earlier candidate stops the scan
\* for, and that passes every filter, is admitted.
C33_AdultSkip ==
    [][Filtered("bg") =>
         LET r == run'["bg"]
             g == GuildOf(r.channel)
         IN  \A i \in 1..Len(r.data) : AdultBlocked(r, i) =>
                /\ i \notin Range(r.posts)
                /\ (\A j \in Range(r.posts) : r.data[j].url # r.data[i].url) =>
                      seen_urls'[g][r.data[i].url] = seen_urls[g][r.data[i].url]
                /\ \A j \in (i + 1)..Len(r.data) :
                      (/\ j \in Examined(r)
                       /\ ~AdultBlocked(r, j)
                       /\ ignored_redditors[g][unescape(r.data[j].author)] = 0
                       /\ seen_urls[g][r.data[j].url] = 0
                       /\ \A k \in Range(r.posts) : k < j => r.data[k].url # r.data[j].url
                       /\ ~(r.image_only /\ ~images(r.data[j])))
                      => j \in Range(r.posts)]_vars

\* C33 witness: the first candidate is adult content with created_utc at or
\* before the cursor and a url that has no seen row, the second was admitted
C33_Witness ==
    LET r == run["bg"]
        g == GuildOf(r.channel)
    IN  /\ r.phase = "dispatch" /\ Len(r.data) = 2
        /\ AdultBlocked(r, 1) /\ r.data[1].created_utc <= r.last_post
        /\ seen_urls[g][r.data[1].url] = 0
        /\ r.posts = <<2>>

\* the poll loop is about to call format_send for a subscription whose
\* "latest" setting is True or absent
AtLatest ==
    /\ AtPair
    /\ bg.feeds[Pairs[bg.i].sub].fetched
    /\ bg.feeds[Pairs[bg.i].sub].resp # NoResponse
    /\ "feed" \in DOMAIN Pairs[bg.i]
    /\ ("latest" \notin DOMAIN Pairs[bg.i].feed \/ Pairs[bg.i].feed.latest)

\* C34: only-newest mode.  A call for a subscription whose "latest" setting
\* is True or absent runs its filter loop over the first candidate of the
\* fetched batch alone: it admits at most one post, which is the first
\* candidate, and the only seen row it adds is one row for the url of the
\* first candidate, when it admits it.
C34_OnlyNewest ==
    [][AtLatest =>
         LET resp == bg.feeds[Pairs[bg.i].sub].resp
             g == GuildOf(Pairs[bg.i].channel)
             r == run'["bg"]
         IN  /\ r.phase = "dispatch" =>
                   (r.data = <<resp[1]>> /\ r.posts \in {<< >>, <<1>>})
             /\ \A u \in Urls : seen_urls'[g][u] # seen_urls[g][u] =>
                   /\ u = resp[1].url
                   /\ seen_urls'[g][u] = seen_urls[g][u] + 1
                   /\ r.phase = "dispatch" /\ r.posts = <<1>>]_vars

\* C34 witness: the subscription has no "latest" key, the cached batch has
\* two candidates of which the second is new, not adult and has a url
\* without a seen row, and the call has admitted the first alone
C34_Witness ==
    LET r == run["bg"]
        resp == bg.feeds[Pairs[bg.i].sub].resp
    IN  /\ bg.pc = "pairs" /\ bg.i = 1 /\ r.phase = "dispatch"
        /\ "feed" \in DOMAIN Pairs[1] /\ "latest" \notin DOMAIN Pairs[1].feed
        /\ Len(resp) = 2 /\ ~resp[2].over_18
        /\ seen_urls[GuildOf(r.channel)][resp[2].url] = 0
        /\ r.posts = <<1>>

\* C35 (the claim as stated): the poll loop comes to the call of do_feeds
\* only from asyncio.sleep(delay): every tick after the first starts after
\* the sleep, also when the tick before it ended in an exception.
C35_SleepBetweenTicks ==
    [][(bg'.pc = "do_feeds" /\ bg.pc # "do_feeds") => bg.pc = "sleep"]_vars

\* C36 (the claim as stated): after the handler of a member's ignore
\* reaction on a message whose redditor is not ignored in the guild, the
\* redditor is ignored there; after the handler of the removal of the
\* reaction while the redditor is ignored, the redditor is not ignored; for
\* a message that names no redditor the ignore list is as before.
C36_ReactionIgnore ==
    [][LET g == ret'.guildID
           a == ret'.key
       IN  /\ (ret'.op = "on_reaction_add" /\ a # NoRedditor /\ ignored_redditors[g][a] = 0) =>
                 db_get_ignored_redditor(db, ignored_redditors', g, a, FALSE).ret # None
           /\ (ret'.op = "on_reaction_remove" /\ a # NoRedditor /\ ignored_redditors[g][a] > 0) =>
                 db_get_ignored_redditor(db, ignored_redditors', g, a, FALSE).ret = None
           /\ (ret'.op \in {"on_reaction_add", "on_reaction_remove"} /\ a = NoRedditor) =>
                 ignored_redditors' = ignored_redditors]_vars

\* the urls of the posts the call r admitted
AdmittedUrls(r) == {r.data[j].url : j \in Range(r.posts)}

\* C37: at most one delivery per guild and url across channels.  With two
\* channels of one guild subscribed to the same subreddit, a url of the guild
\* never has more than one seen row, each row standing for one admission
\* (the pipeline is the only writer and adds a row per admitted post), and
\* two calls for channels of one guild that are both sending have admitted
\* no url in common.
C37_OncePerGuild ==
    /\ \A g \in Guilds, u \in Urls : seen_urls[g][u] <= 1
    /\ \A t, v \in Tasks :
          (/\ t # v
           /\ run[t].phase = "dispatch" /\ run[v].phase = "dispatch"
           /\ GuildOf(run[t].channel) = GuildOf(run[v].channel))
          => AdmittedUrls(run[t]) \cap AdmittedUrls(run[v]) = {}

\* C37 witness: the tick has admitted a url for the first channel and
\* written its cursor; its call for the second channel, on the same batch,
\* has examined that url, new for this channel and by an author not
\* ignored, and has not admitted it
C37_Witness ==
    LET r == run["bg"]
        g == GuildOf(r.channel)
    IN  /\ bg.pc = "pairs" /\ bg.i = 2 /\ last_post[1] > 0 /\ last_post[2] = 0
        /\ r.phase = "dispatch" /\ r.channel = "c2" /\ r.channel # Pairs[1].channel
        /\ GuildOf(Pairs[1].channel) = g
        /\ \E j \in 1..Len(r.data) :
              /\ Eligible(r, j)
              /\ ignored_redditors[g][unescape(r.data[j].author)] = 0
              /\ seen_urls[g][r.data[j].url] = 1
              /\ r.data[j].url \notin AdmittedUrls(r)

====
